---- MODULE Spec2Model ----
(***************************************************************************)
(* screwdriver-notifications-slack: SlackNotifier._notify (src/index.js).  *)
(*                                                                         *)
(* JavaScript values are tagged records, one field set per type, so that   *)
(* a value of the wrong type is a value the schemas can reject.  A string  *)
(* is a sequence of tokens: the characters of a commit message or of a     *)
(* sha are one token each, and the pieces of a link are one token each     *)
(* ("/builds" is the token String.split looks for).  An absent property    *)
(* reads as Undef, as it does in JavaScript.                               *)
(***************************************************************************)
EXTENDS Integers, Sequences, FiniteSets, TLC

\* ----------------------------------------------------------------- values
Undef == [t |-> "undefined"]

Str(s) == [t |-> "string", s |-> s]

Num(n) == [t |-> "number", n |-> n]

Bool(b) == [t |-> "boolean", b |-> b]

Arr(a) == [t |-> "array", a |-> a]

\* A template literal's ${v}: the string itself, a number's digits, or the
\* word undefined.
Tpl(v) ==
    CASE v.t = "string" -> v.s
      [] v.t = "number" -> <<ToString(v.n)>>
      [] OTHER -> <<"undefined">>

\* ----------------------------------------------------------------- tables
COLOR_MAP ==
    [SUCCESS |-> "good", FAILURE |-> "danger", ABORTED |-> "danger",
     RUNNING |-> "#0F69FF", QUEUED |-> "#0F69FF"]

STATUSES_MAP ==
    [SUCCESS |-> ":sunny:", FAILURE |-> ":umbrella:", ABORTED |-> ":cloud:",
     RUNNING |-> ":runner:", QUEUED |-> ":cyclone:"]

\* Mutant: SUCCESS notifies by default too.
DefaultStatusesWide == Arr(<<Str(<<"FAILURE">>), Str(<<"SUCCESS">>)>>)

DEFAULT_STATUSES == Arr(<<Str(<<"FAILURE">>)>>)

cutOff == 150

ShaKeep == 6

\* ---------------------------------------------------------------- schemas
\* Joi: a key is optional unless .required(); Joi.string() refuses the empty
\* string; an object schema without .unknown(true) refuses unknown keys.
SCHEMA_STATUS(v) ==
    /\ v.t = "string"
    /\ Len(v.s) = 1
    /\ v.s[1] \in DOMAIN COLOR_MAP

SCHEMA_STATUSES(v) ==
    /\ v.t = "array"
    /\ \A i \in DOMAIN v.a : SCHEMA_STATUS(v.a[i])
    /\ Len(v.a) >= 0

SCHEMA_SLACK_CHANNEL(v) ==
    /\ v.t = "string"
    /\ v.s # <<>>

SCHEMA_SLACK_CHANNELS(v) ==
    /\ v.t = "array"
    /\ \A i \in DOMAIN v.a : SCHEMA_SLACK_CHANNEL(v.a[i])
    /\ Len(v.a) >= 1

SchemaSlackObject(v) ==
    /\ v.t = "object"
    /\ v.channels = Undef \/ SCHEMA_SLACK_CHANNELS(v.channels)
    /\ v.statuses = Undef \/ SCHEMA_STATUSES(v.statuses)
    /\ v.minimized = Undef \/ v.minimized.t = "boolean"

SCHEMA_SLACK_SETTINGS(v) ==
    /\ v.t = "object"
    /\ v.slack # Undef
    /\ \/ SchemaSlackObject(v.slack)
       \/ SCHEMA_SLACK_CHANNELS(v.slack)
       \/ SCHEMA_SLACK_CHANNEL(v.slack)

SCHEMA_SCM_REPO(v) ==
    /\ v.t = "object"
    /\ v.name # Undef
    /\ v.name.t = "string"
    /\ v.name.s # <<>>

SCHEMA_PIPELINE_DATA(v) ==
    /\ v.t = "object"
    /\ v.scmRepo # Undef
    /\ SCHEMA_SCM_REPO(v.scmRepo)

SchemaBuild(v) ==
    /\ v.t = "object"
    /\ v.id # Undef
    /\ v.id.t = "number"

SCHEMA_BUILD_DATA(v) ==
    /\ v.t = "object"
    /\ v.settings # Undef /\ SCHEMA_SLACK_SETTINGS(v.settings)
    /\ v.status # Undef /\ SCHEMA_STATUS(v.status)
    /\ v.pipeline # Undef /\ SCHEMA_PIPELINE_DATA(v.pipeline)
    /\ v.jobName = Undef \/ (v.jobName.t = "string" /\ v.jobName.s # <<>>)
    /\ v.build = Undef \/ SchemaBuild(v.build)
    /\ v.event = Undef \/ v.event.t = "object"
    /\ v.buildLink = Undef \/ (v.buildLink.t = "string" /\ v.buildLink.s # <<>>)
    /\ v.unknownKeys = 0

SCHEMA_SLACK_CONFIG(v) ==
    /\ v.t = "object"
    /\ v.token # Undef
    /\ v.token.t = "string"
    /\ v.token.s # <<>>

\* ------------------------------------------------------------------ state
VARIABLES
    config,     \* this.config, as the constructor validated it
    buildData,  \* the event object the host passes to _notify, as it now is
    passed,     \* the same object as it was when the host built it
    log         \* one entry per _notify call: how it ended and its slacker calls

vars == <<config, buildData, passed, log>>

\* ----------------------------------------------------------------- bounds
MaxChannels == 2

MaxOver == 2

MaxCalls == 2

\* ----------------------------------------------------------------- inputs
Min(S) == CHOOSE x \in S : \A y \in S : x <= y

Chars(n) == [i \in 1..n |-> ToString(i % 10)]

Channel(i) == Str(<<"#chan", ToString(i)>>)

\* Channels in an order that is neither sorted nor the order of creation.
ChannelList(n) == Arr([i \in 1..n |-> Channel(IF i = 1 THEN n ELSE i - 1)])

StatusNames == DOMAIN COLOR_MAP

StatusesValues ==
    {Undef, Arr(<<>>), Arr(<<Str(<<"SUCCESS">>)>>),
     Arr(<<Str(<<"FAILURE">>), Str(<<"RUNNING">>)>>)}

SlackObject(c, s, m) ==
    [t |-> "object", channels |-> c, statuses |-> s, minimized |-> m]

\* The settings.slack values the schema accepts.
SlackValues ==
    {Channel(1)}
    \cup {ChannelList(n) : n \in 1..MaxChannels}
    \cup {SlackObject(c, s, m) :
            c \in {Undef, ChannelList(MaxChannels)},
            s \in StatusesValues,
            m \in {Undef, Bool(TRUE), Bool(FALSE)}}

\* The settings.slack values it refuses.
BadSlackValues ==
    {Undef, Num(5), Str(<<>>), Arr(<<>>), Arr(<<Num(5)>>),
     SlackObject(Arr(<<>>), Undef, Undef),
     SlackObject(Channel(1), Undef, Undef),
     SlackObject(ChannelList(1), Arr(<<Str(<<"BOGUS">>)>>), Undef),
     SlackObject(ChannelList(1), Undef, Str(<<"yes">>))}

Settings(slack, others) ==
    [t |-> "object", slack |-> slack, otherKeys |-> others]

Pipeline(name) ==
    [t |-> "object", scmRepo |-> [t |-> "object", name |-> name]]

Build(id) == [t |-> "object", id |-> id]

Commit(message, url) == [t |-> "object", message |-> message, url |-> url]

Event(sha, commit, cause) ==
    [t |-> "object", sha |-> sha, commit |-> commit, causeMessage |-> cause]

Url == Str(<<"http://scm/commit/1">>)

Cause == Str(<<"Merged by batman">>)

MsgLens == {0, cutOff - 1, cutOff, cutOff + 1, cutOff + MaxOver}

\* The event container: absent, or lacking what the renderer reads, or whole.
EventValues ==
    {Undef,
     Event(Undef, Commit(Str(Chars(3)), Url), Cause),
     Event(Str(Chars(ShaKeep + 1)), Undef, Cause),
     Event(Str(Chars(ShaKeep + 1)), Commit(Undef, Url), Cause),
     Event(Str(Chars(ShaKeep - 1)), Commit(Str(Chars(3)), Url), Cause),
     Event(Str(Chars(ShaKeep + 1)), Commit(Str(Chars(3)), Undef), Undef)}
    \cup {Event(Str(Chars(ShaKeep + 1)), Commit(Str(Chars(n)), Url), Cause) :
            n \in MsgLens}

LinkValues ==
    {Undef,
     Str(<<"http://ci/pipelines/7">>),
     Str(<<"http://ci/pipelines/7", "/builds", "/42">>),
     Str(<<"http://ci", "/builds", "/pipelines/7", "/builds", "/42">>)}

BuildData(settings, status, pipeline, jobName, build, event, buildLink, unknown) ==
    [t |-> "object", settings |-> settings, status |-> status,
     pipeline |-> pipeline, jobName |-> jobName, build |-> build,
     event |-> event, buildLink |-> buildLink, unknownKeys |-> unknown]

\* Every event the schema accepts, over the values above.
AcceptedEvents ==
    {BuildData(Settings(sl, 0), Str(<<st>>), Pipeline(Str(<<"screwdriver-cd/ui">>)),
               jn, bd, ev, ln, 0) :
        sl \in SlackValues, st \in StatusNames,
        jn \in {Undef, Str(<<"main">>)},
        bd \in {Undef, Build(Num(42))},
        ev \in EventValues, ln \in LinkValues}

\* Whole events: every optional key present.
WholeEvents ==
    {e \in AcceptedEvents :
        /\ e.jobName # Undef /\ e.build # Undef /\ e.buildLink # Undef
        /\ e.event = Event(Str(Chars(ShaKeep + 1)), Commit(Str(Chars(cutOff)), Url), Cause)
        /\ Len(e.buildLink.s) = 3}

\* A whole event with one key made wrong, or one key added.
DefectEvents ==
    UNION {
        {[e EXCEPT !.settings = Undef],
         [e EXCEPT !.settings = Str(<<"#chan">>)],
         [e EXCEPT !.status = Undef],
         [e EXCEPT !.status = Str(<<"BOGUS">>)],
         [e EXCEPT !.status = Num(1)],
         [e EXCEPT !.pipeline = Undef],
         [e EXCEPT !.pipeline = [t |-> "object", scmRepo |-> Undef]],
         [e EXCEPT !.pipeline = Pipeline(Undef)],
         [e EXCEPT !.pipeline = Pipeline(Num(7))],
         [e EXCEPT !.jobName = Num(3)],
         [e EXCEPT !.build = Build(Undef)],
         [e EXCEPT !.build = Build(Str(<<"forty-two">>))],
         [e EXCEPT !.event = Str(<<"push">>)],
         [e EXCEPT !.buildLink = Num(42)],
         [e EXCEPT !.buildLink = Str(<<>>)],
         [e EXCEPT !.unknownKeys = 1],
         [e EXCEPT !.settings.otherKeys = 1]}
        : e \in WholeEvents }
    \cup {[e EXCEPT !.settings.slack = sl] :
            e \in WholeEvents, sl \in BadSlackValues}

Events == AcceptedEvents \cup DefectEvents

Tokens == {Str(<<"xoxb-1">>), Str(<<"xoxb-2">>)}

\* --------------------------------------------------------------- _notify
Includes(arr, v) == \E i \in DOMAIN arr.a : arr.a[i] = v

KeyCount(settings) ==
    (IF settings.slack = Undef THEN 0 ELSE 1) + settings.otherKeys

\* Mutant: the structured form always gets the default statuses.
NormalizeOverwrites(slack) ==
    LET channels == IF slack.t = "string" THEN Arr(<<slack>>) ELSE slack
    IN  IF slack.t = "string" \/ slack.t = "array"
        THEN SlackObject(channels, Arr(<<Str(<<"FAILURE">>)>>), Bool(FALSE))
        ELSE [slack EXCEPT !.statuses = Arr(<<Str(<<"FAILURE">>)>>)]

\* Mutant: the channel string is not wrapped into a list.
NormalizeNoWrap(slack) ==
    LET structured ==
            IF slack.t = "string" \/ slack.t = "array"
            THEN SlackObject(slack, Arr(<<Str(<<"FAILURE">>)>>), Bool(FALSE))
            ELSE slack
    IN  IF structured.statuses = Undef
        THEN [structured EXCEPT !.statuses = Arr(<<Str(<<"FAILURE">>)>>)]
        ELSE structured

\* Lines 93-106: the string and the list become the structured form, and an
\* absent statuses becomes DEFAULT_STATUSES.
Normalize(slack) ==
    LET channels == IF slack.t = "string" THEN Arr(<<slack>>) ELSE slack
        structured ==
            IF slack.t = "string" \/ slack.t = "array"
            THEN SlackObject(channels, DEFAULT_STATUSES, Bool(FALSE))
            ELSE slack
    IN  IF structured.statuses = Undef
        THEN [structured EXCEPT !.statuses = DEFAULT_STATUSES]
        ELSE structured

\* Mutant: the link is cut before its last "/builds".
pipelineLinkLast(b) ==
    LET s == b.buildLink.s
        at == {i \in DOMAIN s : s[i] = "/builds"}
    IN  IF at = {} THEN s ELSE SubSeq(s, 1, (CHOOSE x \in at : \A y \in at : x >= y) - 1)

pipelineLink(b) ==
    LET s == b.buildLink.s
        at == {i \in DOMAIN s : s[i] = "/builds"}
    IN  IF at = {} THEN s ELSE SubSeq(s, 1, Min(at) - 1)

truncatedSha(b) ==
    LET s == b.event.sha.s
    IN  SubSeq(s, 1, IF Len(s) < ShaKeep THEN Len(s) ELSE ShaKeep)

\* Mutant: a message of exactly cutOff characters is cut too.
commitMessageOffByOne(b) ==
    LET m == b.event.commit.message.s
    IN  IF Len(m) >= cutOff THEN SubSeq(m, 1, cutOff) \o <<"...">> ELSE m

commitMessage(b) ==
    LET m == b.event.commit.message.s
    IN  IF Len(m) > cutOff THEN SubSeq(m, 1, cutOff) \o <<"...">> ELSE m

isMinimized(b) ==
    /\ b.settings.slack.minimized # Undef
    /\ b.settings.slack.minimized.b

message(b) ==
    IF isMinimized(b)
    THEN <<"<">> \o pipelineLink(b) \o <<"|">> \o Tpl(b.pipeline.scmRepo.name)
         \o <<"#">> \o Tpl(b.jobName) \o <<"> *">> \o Tpl(b.status) \o <<"*">>
    ELSE <<"*">> \o Tpl(b.status) \o <<"* ">> \o <<STATUSES_MAP[b.status.s[1]]>>
         \o <<" <">> \o pipelineLink(b) \o <<"|">> \o Tpl(b.pipeline.scmRepo.name)
         \o <<" ">> \o Tpl(b.jobName) \o <<">">>

attachments(b) ==
    IF isMinimized(b)
    THEN <<[fallback |-> <<>>,
            color |-> COLOR_MAP[b.status.s[1]],
            fields |-> <<[title |-> "Build",
                          value |-> <<"<">> \o Tpl(b.buildLink) \o <<"|#">>
                                    \o Tpl(b.build.id) \o <<">">>,
                          short |-> TRUE]>>]>>
    ELSE <<[fallback |-> <<>>,
            color |-> COLOR_MAP[b.status.s[1]],
            title |-> <<"#">> \o Tpl(b.build.id),
            title_link |-> Tpl(b.buildLink),
            text |-> commitMessage(b) \o <<" (<">> \o Tpl(b.event.commit.url)
                     \o <<"|">> \o truncatedSha(b) \o <<">)">> \o <<"\n">>
                     \o Tpl(b.event.causeMessage)]>>

slackMessage(b) == [message |-> message(b), attachments |-> attachments(b)]

\* Lines 111-147 read a property of undefined, and throw a TypeError, when the
\* event lacks buildLink, event, event.sha, event.commit, event.commit.message
\* or build.
RenderThrows(b) ==
    \/ b.buildLink = Undef
    \/ b.event = Undef
    \/ b.event.sha = Undef
    \/ b.event.commit = Undef
    \/ b.event.commit.message = Undef
    \/ b.build = Undef

\* The transport returns, or throws what went wrong in the delivery.
SlackerOutcomes == {"returned", "TransportError"}

Ended(how, calls) ==
    log' = Append(log, [outcome |-> how, calls |-> calls])

Init ==
    /\ config \in {c \in {[t |-> "object", token |-> tk] : tk \in Tokens \cup {Undef}} :
                    SCHEMA_SLACK_CONFIG(c)}
    /\ buildData \in Events
    /\ passed = buildData
    /\ log = <<>>

_notify ==
    /\ Len(log) < MaxCalls
    /\ UNCHANGED <<config, passed>>
    /\ IF ~SCHEMA_BUILD_DATA(buildData)
       THEN Ended("returned", <<>>) /\ UNCHANGED buildData
       ELSE IF KeyCount(buildData.settings) = 0
       THEN Ended("returned", <<>>) /\ UNCHANGED buildData
       ELSE LET b == [buildData EXCEPT
                        !.settings.slack = Normalize(buildData.settings.slack)]
            IN  /\ buildData' = b
                /\ IF ~Includes(b.settings.slack.statuses, b.status)
                   THEN Ended("returned", <<>>)
                   ELSE IF RenderThrows(b)
                   THEN Ended("TypeError", <<>>)
                   ELSE \E how \in SlackerOutcomes :
                          Ended(how, <<[token |-> config.token,
                                        channels |-> b.settings.slack.channels,
                                        slackMessage |-> slackMessage(b)]>>)

Next == _notify

Spec == Init /\ [][Next]_vars

\* ================================================================= claims
\* The slacker calls of all _notify calls so far.
Calls == {log[i].calls[1] : i \in {j \in DOMAIN log : log[j].calls # <<>>}}

Failure == Str(<<"FAILURE">>)

\* The statuses that notify, as the settings the host passed give them.
EffectiveStatuses ==
    LET sl == IF passed.settings.t = "object" THEN passed.settings.slack ELSE Undef
    IN  IF sl.t = "object" /\ sl.statuses # Undef
        THEN IF sl.statuses.t = "array"
             THEN {sl.statuses.a[i] : i \in DOMAIN sl.statuses.a}
             ELSE {}
        ELSE {Failure}

\* C1: an event whose status is not in the effective statuses set (the
\* configured ones, or FAILURE alone when none are configured) makes _notify
\* return without calling the transport and without raising.
C1_FilteredStatusIsSilent ==
    passed.status \notin EffectiveStatuses =>
        \A i \in DOMAIN log : log[i].outcome = "returned" /\ log[i].calls = <<>>

\* An accepted event, lacking what the renderer reads, was filtered out.
C1_Witness ==
    /\ log # <<>>
    /\ SCHEMA_BUILD_DATA(passed)
    /\ passed.settings.slack.t = "object"
    /\ passed.settings.slack.statuses = Arr(<<Str(<<"SUCCESS">>)>>)
    /\ passed.status = Failure
    /\ passed.buildLink = Undef

\* The event the host passed satisfies the input contract: settings.slack a
\* channel string, a non-empty channel list or a structured object with a
\* non-empty channels list; status one of the five; pipeline.scmRepo.name a
\* string; build.id an integer; buildLink a string.
IsText(v) == v.t = "string" /\ v.s # <<>>

IsChannels(v) ==
    v.t = "array" /\ v.a # <<>> /\ \A i \in DOMAIN v.a : IsText(v.a[i])

InputContract ==
    /\ passed.unknownKeys = 0
    /\ passed.settings.t = "object"
    /\ LET sl == passed.settings.slack
       IN  \/ IsText(sl)
           \/ IsChannels(sl)
           \/ /\ sl.t = "object"
              /\ IsChannels(sl.channels)
              /\ sl.statuses = Undef
                 \/ /\ sl.statuses.t = "array"
                    /\ \A i \in DOMAIN sl.statuses.a :
                         /\ sl.statuses.a[i].t = "string"
                         /\ sl.statuses.a[i].s \in {<<k>> : k \in StatusNames}
              /\ sl.minimized = Undef \/ sl.minimized.t = "boolean"
    /\ passed.status.t = "string"
    /\ passed.status.s \in {<<k>> : k \in StatusNames}
    /\ passed.pipeline.t = "object"
    /\ passed.pipeline.scmRepo.t = "object"
    /\ IsText(passed.pipeline.scmRepo.name)
    /\ passed.jobName = Undef \/ IsText(passed.jobName)
    /\ passed.build.t = "object"
    /\ passed.build.id.t = "number"
    /\ passed.event = Undef \/ passed.event.t = "object"
    /\ IsText(passed.buildLink)

\* The contract's row for the event container: optional, but when minimized
\* is not true it must carry sha, commit.message, commit.url and causeMessage,
\* strings all.
EventContract ==
    \/ /\ passed.settings.slack.t = "object"
       /\ passed.settings.slack.minimized = Bool(TRUE)
    \/ /\ passed.event.t = "object"
       /\ passed.event.sha.t = "string"
       /\ passed.event.commit.t = "object"
       /\ passed.event.commit.message.t = "string"
       /\ passed.event.commit.url.t = "string"
       /\ passed.event.causeMessage.t = "string"

\* C2: an event that does not satisfy the input contract makes _notify return
\* without calling the transport and without raising.
C2_ContractBreachIsSilent ==
    ~InputContract =>
        \A i \in DOMAIN log : log[i].outcome = "returned" /\ log[i].calls = <<>>

\* C3: whatever the event, jobName or the event container omitted included,
\* _notify returns or propagates what the transport raised; nothing else
\* reaches the caller.  Stated over the events the input contract admits,
\* where only the optional jobName and, when minimized is true, the event
\* container can be missing.
C3_OnlyTransportErrors ==
    (InputContract /\ EventContract) =>
        \A i \in DOMAIN log : log[i].outcome \in {"returned", "TransportError"}

\* C4: for an event that passes the validation gate (the schema's and the
\* input contract's alike) with a status in the effective statuses set, each _notify call invokes the transport exactly
\* once, with the configured token, the whole channel list in its order, the
\* header and the attachment.
C4_OneDispatchPerCall ==
    (/\ SCHEMA_BUILD_DATA(passed)
     /\ InputContract /\ EventContract
     /\ passed.status \in EffectiveStatuses) =>
        \A i \in DOMAIN log :
            /\ Len(log[i].calls) = 1
            /\ log[i].calls[1].token = config.token
            /\ LET sl == passed.settings.slack
               IN  log[i].calls[1].channels =
                     (IF sl.t = "string" THEN Arr(<<sl>>)
                      ELSE IF sl.t = "array" THEN sl ELSE sl.channels)
            /\ log[i].calls[1].slackMessage.message # <<>>
            /\ Len(log[i].calls[1].slackMessage.attachments) = 1

\* C5: the channel list handed to the transport is a non-empty list of channel
\* strings, and the statuses the filter reads are defined, for every settings
\* value the gate accepts.
C5_ChannelsNeverEmpty ==
    /\ \A c \in Calls : IsChannels(c.channels)
    /\ (log # <<>> /\ SCHEMA_BUILD_DATA(passed)) =>
          /\ buildData.settings.slack.statuses # Undef
          /\ buildData.settings.slack.statuses.t = "array"

\* The canonical form the settings the host passed must take.
Canonical(sl) ==
    CASE sl.t = "string" ->
           [t |-> "object", channels |-> Arr(<<sl>>),
            statuses |-> Arr(<<Failure>>), minimized |-> Bool(FALSE)]
      [] sl.t = "array" ->
           [t |-> "object", channels |-> sl,
            statuses |-> Arr(<<Failure>>), minimized |-> Bool(FALSE)]
      [] OTHER ->
           [t |-> "object", channels |-> sl.channels,
            statuses |-> IF sl.statuses = Undef THEN Arr(<<Failure>>)
                         ELSE sl.statuses,
            minimized |-> sl.minimized]

\* C6: normalization keeps the channels and fills the defaults: a string s
\* becomes {channels: [s], statuses: [FAILURE], minimized: false}, a list L
\* becomes {channels: L, statuses: [FAILURE], minimized: false}, a structured
\* object keeps channels, minimized and any statuses, and gets [FAILURE] only
\* when statuses is absent.  The canonical form is what the filter and the
\* transport then see.
C6_NormalizationKeepsAndFills ==
    (log # <<>> /\ SCHEMA_BUILD_DATA(passed)) =>
        /\ buildData.settings.slack = Canonical(passed.settings.slack)
        /\ \A c \in Calls : c.channels = Canonical(passed.settings.slack).channels
        /\ LET st == Canonical(passed.settings.slack).statuses.a
           IN  \/ (Calls # {}) = (\E k \in DOMAIN st : st[k] = passed.status)
               \/ \E j \in DOMAIN log : log[j].outcome = "TypeError"

\* A channel list of MaxChannels channels was normalized and dispatched.
C6_Witness ==
    /\ SCHEMA_BUILD_DATA(passed)
    /\ passed.settings.slack.t = "array"
    /\ Len(passed.settings.slack.a) = MaxChannels
    /\ buildData.settings.slack.t = "object"
    /\ Calls # {}

\* C7, C8: what the claims say the renderer computes, from the event the host
\* passed.
First(s, n) == [i \in 1..n |-> s[i]]

ExpectedCommit ==
    LET m == passed.event.commit.message.s
    IN  IF Len(m) <= 150 THEN m ELSE First(m, 150) \o <<"...">>

\* C7: the commit message in the non-minimized attachment body is the original
\* when it has at most 150 characters, and its first 150 characters followed
\* by '...' when it has more.
C7_CommitMessageCutAt150 ==
    \A c \in Calls :
        LET a == c.slackMessage.attachments[1]
            e == ExpectedCommit
        IN  "text" \in DOMAIN a =>
              /\ Len(a.text) > Len(e)
              /\ First(a.text, Len(e)) = e
              /\ a.text[Len(e) + 1] = " (<"

\* A message of 151 characters was dispatched in the full form.
C7_Witness ==
    /\ Calls # {}
    /\ passed.event.commit.message.s = [i \in 1..151 |-> ToString(i % 10)]
    /\ \E c \in Calls : "text" \in DOMAIN c.slackMessage.attachments[1]

\* The link cut before its first "/builds": the longest prefix free of it.
CutBeforeBuilds(s) ==
    CHOOSE p \in {First(s, k) : k \in 0..Len(s)} :
        /\ \A i \in DOMAIN p : p[i] # "/builds"
        /\ Len(p) = Len(s) \/ s[Len(p) + 1] = "/builds"

MinimizedFlag ==
    /\ passed.settings.slack.t = "object"
    /\ passed.settings.slack.minimized = Bool(TRUE)

\* C8: the minimized flag alone selects the form.  Minimized: header
\* '<pipelineLink|repoName#jobName> *STATUS*' and one field 'Build' linking
\* '#buildId' to buildLink, no commit text.  Otherwise: header '*STATUS* <emoji>
\* <pipelineLink|repoName jobName>', title '#buildId', title link buildLink,
\* body of commit message, six-character sha linked to the commit url, newline,
\* cause message.  In both the color is the status's, and pipelineLink is
\* buildLink cut before its first '/builds'.
C8_FormFollowsMinimized ==
    \A c \in Calls :
        LET a == c.slackMessage.attachments[1]
            status == passed.status.s[1]
            link == passed.buildLink.s
            repo == passed.pipeline.scmRepo.name.s
            job == Tpl(passed.jobName)
            id == <<ToString(passed.build.id.n)>>
            sha == passed.event.sha.s
            sha6 == IF Len(sha) <= 6 THEN sha ELSE First(sha, 6)
        IN  /\ Len(c.slackMessage.attachments) = 1
            /\ a.color = COLOR_MAP[status]
            /\ IF MinimizedFlag
               THEN /\ c.slackMessage.message =
                         <<"<">> \o CutBeforeBuilds(link) \o <<"|">> \o repo
                         \o <<"#">> \o job \o <<"> *", status, "*">>
                    /\ DOMAIN a = {"fallback", "color", "fields"}
                    /\ Len(a.fields) = 1
                    /\ a.fields[1].title = "Build"
                    /\ a.fields[1].value = <<"<">> \o link \o <<"|#">> \o id \o <<">">>
               ELSE /\ c.slackMessage.message =
                         <<"*", status, "* ", STATUSES_MAP[status], " <">>
                         \o CutBeforeBuilds(link) \o <<"|">> \o repo \o <<" ">>
                         \o job \o <<">">>
                    /\ DOMAIN a = {"fallback", "color", "title", "title_link", "text"}
                    /\ a.title = <<"#">> \o id
                    /\ a.title_link = link
                    /\ a.text = ExpectedCommit \o <<" (<">>
                                \o Tpl(passed.event.commit.url) \o <<"|">> \o sha6
                                \o <<">)", "\n">> \o Tpl(passed.event.causeMessage)

\* A minimized notification for a link that holds "/builds" twice.
C8_Witness ==
    /\ Calls # {}
    /\ MinimizedFlag
    /\ Cardinality({i \in DOMAIN passed.buildLink.s :
                      passed.buildLink.s[i] = "/builds"}) = 2

\* C9: _notify leaves the caller's event as it was passed, settings.slack
\* included.
C9_EventUnchanged ==
    log # <<>> => buildData = passed

\* C10: two successive _notify calls on the same event object make the same
\* dispatch decision and hand the transport the same channel list, header and
\* attachment.
C10_SecondCallAgrees ==
    \A i, j \in DOMAIN log : log[i].calls = log[j].calls

\* Two calls dispatched for settings the first call rewrote.
C10_Witness ==
    /\ Len(log) = 2
    /\ log[1].calls # <<>>
    /\ log[2].calls # <<>>
    /\ passed.settings.slack.t = "string"
    /\ buildData.settings.slack.t = "object"

====
